---- MODULE Spec2Model ----
(***************************************************************************)
(* The cleaning pipeline of clean_nebula_nosh.py (clean_data) as a state   *)
(* machine: one action per stage of the procedure, in the order of the     *)
(* code.                                                                   *)
(*                                                                         *)
(* Representation.                                                         *)
(*   - A cell is a tuple.  << >> is a missing value (np.nan, or an empty   *)
(*     field of the CSV file for a numeric column).  <<s>> with s a string *)
(*     is a text cell; in a file, <<"">> is the empty field of a text      *)
(*     column.  <<n>> with n an integer is a number.  <<"text", s>> is a   *)
(*     non-numeric text s held in the numeric column Customer_Rating.      *)
(*   - Numbers are stored in half units: the float v is the integer 2*v    *)
(*     (Num(v)), so that the mean of the two middle values of an even      *)
(*     group, which pandas computes in floating point, is exact.  A float  *)
(*     survives to_csv / read_csv unchanged (repr round trip), so a number *)
(*     is the same integer in a file and in the table.                     *)
(*   - A table is [cols, rows]: the set of columns present and the         *)
(*     sequence of rows; a row has a field for every referenced column,    *)
(*     and the field of an absent column is never read (it holds << >>).   *)
(***************************************************************************)
EXTENDS Integers, Sequences, FiniteSets, TLC

VARIABLES
    pc,                     \* the stage clean_data is about to run
    run,                    \* 1: first invocation, 2: invocation on its own output
    source,                 \* nebula_nosh_ops_data.csv: [exists, cols, rows]
    df,                     \* the DataFrame: [cols, rows]
    output,                 \* nebula_nosh_ops_data_cleaned.csv: [writes, cols, rows]
    original_swift_counts,  \* the typo count reported by the text stage
    warned,                 \* validation printed a WARNING line
    ran,                    \* the stages this invocation has completed
    previous                \* the output file of the first invocation

vars == <<pc, run, source, df, output, original_swift_counts, warned, ran, previous>>

(***************************************************************************)
(* Bounds of the model.                                                    *)
(***************************************************************************)
MaxRows == 3

(***************************************************************************)
(* Cells, columns and text.                                                *)
(***************************************************************************)
Num(v) == 2 * v

NaN == << >>

isna(c) == c = NaN

IsText(c) == Len(c) = 2

Txt(s) == <<"text", s>>

TextCols == {"Drone_Model", "Customer_Segment", "Traffic_Density", "Weather_Condition"}

NumCols == {"Delivery_Time_Min", "Order_Value_USD", "Distance_KM", "Customer_Rating"}

Columns == TextCols \cup NumCols

\* The trimmed texts of the model; Pad(w) is w with surrounding whitespace.
Words == {"", "nan", "Swft-X", "Swift-X", "Falcon", "Premium", "Standard",
          "Unknown", "Medium", "Low", "Clear", "Rain", "bad"}

Pad(w) == " " \o w \o " "

\* str.strip()
Strip(s) == IF \E w \in Words : s = Pad(w)
            THEN CHOOSE w \in Words : s = Pad(w)
            ELSE s

\* The fields read_csv takes for a missing value (its default na_values,
\* restricted to the texts of the model).  Matching is on the raw field.
NaValues == {"", "nan"}

NoTable == [cols |-> {}, rows |-> << >>]

NoOutput == [writes |-> 0, cols |-> {}, rows |-> << >>]

\* df[c] = cells: rows with column c replaced by cells[i] in every row i
SetCol(rows, c, cells) == [i \in DOMAIN rows |-> [rows[i] EXCEPT ![c] = cells[i]]]

(***************************************************************************)
(* 1. Load: pd.read_csv and the FileNotFoundError guard.                   *)
(***************************************************************************)
read_cell(c, cell) ==
    IF c \in TextCols
    THEN IF cell[1] \in NaValues THEN NaN ELSE cell
    ELSE cell

read_csv(file) ==
    [cols |-> file.cols,
     rows |-> [i \in DOMAIN file.rows |->
                 [c \in Columns |-> IF c \in file.cols
                                    THEN read_cell(c, file.rows[i][c])
                                    ELSE NaN]]]

Load ==
    /\ pc = "load"
    /\ source.exists
    /\ df' = read_csv(source)
    /\ pc' = "normalize"
    /\ ran' = ran \cup {"load"}
    /\ UNCHANGED <<run, source, output, original_swift_counts, warned, previous>>

\* LoadFail without its return: the stages go on after the error message
LoadFail_no_return ==
    /\ pc = "load"
    /\ ~source.exists
    /\ pc' = "normalize"
    /\ UNCHANGED <<run, source, df, output, original_swift_counts, warned, ran, previous>>

LoadFail ==
    /\ pc = "load"
    /\ ~source.exists
    /\ pc' = "done"
    /\ UNCHANGED <<run, source, df, output, original_swift_counts, warned, ran, previous>>

(***************************************************************************)
(* 2. Standardize text columns.                                            *)
(***************************************************************************)
\* df.select_dtypes(include=['object']).columns: read_csv gives a column the
\* object dtype when it holds a text; a column with no text at all is float64.
str_cols(t) ==
    {c \in t.cols :
        \E i \in DOMAIN t.rows :
            IF c \in TextCols THEN ~isna(t.rows[i][c]) ELSE IsText(t.rows[i][c])}

\* astype(str).str.strip() on one cell of an object column
strip_cell(c, cell) ==
    IF c \in TextCols
    THEN IF isna(cell) THEN <<"nan">> ELSE <<Strip(cell[1])>>
    ELSE IF isna(cell) THEN Txt("nan")
         ELSE IF IsText(cell) THEN Txt(Strip(cell[2])) ELSE cell

strip_columns(t) ==
    [t EXCEPT !.rows =
        [i \in DOMAIN t.rows |->
            [c \in Columns |-> IF c \in str_cols(t)
                               THEN strip_cell(c, t.rows[i][c])
                               ELSE t.rows[i][c]]]]

\* df['Drone_Model'].value_counts().get('Swft-X', 0)
value_count(rows, c, cell) == Cardinality({i \in DOMAIN rows : rows[i][c] = cell})

\* replace_typo with a misspelt key: nothing is replaced
replace_typo_no_match(cell) == cell

\* df['Drone_Model'].replace({'Swft-X': 'Swift-X'})
replace_typo(cell) == IF cell = <<"Swft-X">> THEN <<"Swift-X">> ELSE cell

NormalizeText ==
    /\ pc = "normalize"
    /\ LET s == strip_columns(df) IN
        IF "Drone_Model" \in df.cols
        THEN /\ original_swift_counts' = value_count(s.rows, "Drone_Model", <<"Swft-X">>)
             /\ df' = [s EXCEPT !.rows =
                         SetCol(s.rows, "Drone_Model",
                                [i \in DOMAIN s.rows |-> replace_typo(s.rows[i]["Drone_Model"])])]
        ELSE /\ df' = s
             /\ UNCHANGED original_swift_counts
    /\ pc' = "delivery"
    /\ ran' = ran \cup {"normalize"}
    /\ UNCHANGED <<run, source, output, warned, previous>>

(***************************************************************************)
(* Medians and grouping.                                                   *)
(***************************************************************************)
\* the rows of G whose cell in column c is not missing
notna(rows, c, G) == {i \in G : ~isna(rows[i][c])}

\* the k-th smallest of the numbers rows[i][c][1], i \in I (1 <= k <= |I|)
Kth(rows, c, I, k) ==
    CHOOSE v \in {rows[i][c][1] : i \in I} :
        /\ Cardinality({i \in I : rows[i][c][1] < v}) < k
        /\ k <= Cardinality({i \in I : rows[i][c][1] <= v})

\* median that takes the lower middle value of an even count
median_lower_middle(rows, c, G) ==
    LET I == notna(rows, c, G)
        n == Cardinality(I)
    IN  IF n = 0 THEN NaN ELSE <<Kth(rows, c, I, (n + 1) \div 2)>>

\* Series.median(): missing values are skipped; NaN when nothing is left;
\* the mean of the two middle values when the count is even.
median(rows, c, G) ==
    LET I == notna(rows, c, G)
        n == Cardinality(I)
    IN  IF n = 0 THEN NaN
        ELSE IF n % 2 = 1 THEN <<Kth(rows, c, I, (n + 1) \div 2)>>
        ELSE <<(Kth(rows, c, I, n \div 2) + Kth(rows, c, I, n \div 2 + 1)) \div 2>>

\* Series.fillna(m)
fillna(cell, m) == IF isna(cell) THEN m ELSE cell

\* group that ignores the key: one median for the whole column
group_whole_column(rows, key, i) == DOMAIN rows

\* the rows that df.groupby(key) puts in the group of row i
group(rows, key, i) == {j \in DOMAIN rows : rows[j][key] = rows[i][key]}

\* df.groupby(key)[c].transform(lambda x: x.fillna(x.median())), assigned back
\* to df[c].  groupby drops the rows whose key is missing unless dropna=False;
\* the assignment aligns on the index, so a dropped row receives NaN.
transform_fill(rows, key, c, dropna) ==
    SetCol(rows, c,
           [i \in DOMAIN rows |->
               IF dropna /\ isna(rows[i][key])
               THEN NaN
               ELSE fillna(rows[i][c], median(rows, c, group(rows, key, i)))])

(***************************************************************************)
(* 3A. Delivery_Time_Min.                                                  *)
(***************************************************************************)
\* clean_delivery_time with > 300 for >= 300
clean_delivery_time_gt(val) ==
    IF isna(val) \/ val[1] < Num(0) \/ val[1] > Num(300) \/ val[1] = Num(999)
    THEN NaN
    ELSE val

clean_delivery_time(val) ==
    IF isna(val) \/ val[1] < Num(0) \/ val[1] >= Num(300) \/ val[1] = Num(999)
    THEN NaN
    ELSE val

mask_delivery(rows) ==
    SetCol(rows, "Delivery_Time_Min",
           [i \in DOMAIN rows |-> clean_delivery_time(rows[i]["Delivery_Time_Min"])])

\* groupby('Drone_Model') keeps the default dropna=True
impute_delivery(rows) == transform_fill(rows, "Drone_Model", "Delivery_Time_Min", TRUE)

CleanDeliveryTime ==
    /\ pc = "delivery"
    /\ IF "Delivery_Time_Min" \notin df.cols
       THEN /\ pc' = "order"
            /\ UNCHANGED df
       ELSE IF "Drone_Model" \notin df.cols
       THEN \* KeyError: 'Drone_Model', after the masking assignment
            /\ pc' = "aborted"
            /\ df' = [df EXCEPT !.rows = mask_delivery(df.rows)]
       ELSE /\ pc' = "order"
            /\ df' = [df EXCEPT !.rows = impute_delivery(mask_delivery(df.rows))]
    /\ ran' = IF pc' = "aborted" THEN ran ELSE ran \cup {"delivery"}
    /\ UNCHANGED <<run, source, output, original_swift_counts, warned, previous>>

(***************************************************************************)
(* 3B. Order_Value_USD.                                                    *)
(***************************************************************************)
\* mask_negative that masks nothing
mask_negative_none(cell) == cell

\* Series.where(Series >= 0, np.nan): a missing value compares False
mask_negative(cell) == IF ~isna(cell) /\ cell[1] >= Num(0) THEN cell ELSE NaN

mask_column(rows, c) == SetCol(rows, c, [i \in DOMAIN rows |-> mask_negative(rows[i][c])])

\* lambda x: x.fillna(x.median() if not np.isnan(x.median()) else overall_median_val)
group_or_overall(group_median, overall_median_val) ==
    IF ~isna(group_median) THEN group_median ELSE overall_median_val

impute_order(rows) ==
    LET overall_median_val == median(rows, "Order_Value_USD", DOMAIN rows)
        grouped == SetCol(rows, "Order_Value_USD",
                     [i \in DOMAIN rows |->
                         fillna(rows[i]["Order_Value_USD"],
                                group_or_overall(
                                    median(rows, "Order_Value_USD",
                                           group(rows, "Customer_Segment", i)),
                                    overall_median_val))])
    IN  \* final fallback: fillna(overall_median_val)
        SetCol(grouped, "Order_Value_USD",
               [i \in DOMAIN rows |-> fillna(grouped[i]["Order_Value_USD"], overall_median_val)])

CleanOrderValue ==
    /\ pc = "order"
    /\ IF "Order_Value_USD" \notin df.cols
       THEN /\ pc' = "distance"
            /\ UNCHANGED df
       ELSE IF "Customer_Segment" \notin df.cols
       THEN \* KeyError: 'Customer_Segment', after the masking assignment
            /\ pc' = "aborted"
            /\ df' = [df EXCEPT !.rows = mask_column(df.rows, "Order_Value_USD")]
       ELSE /\ pc' = "distance"
            /\ df' = [df EXCEPT !.rows =
                        impute_order(mask_column(df.rows, "Order_Value_USD"))]
    /\ ran' = IF pc' = "aborted" THEN ran ELSE ran \cup {"order"}
    /\ UNCHANGED <<run, source, output, original_swift_counts, warned, previous>>

(***************************************************************************)
(* 3C. Distance_KM.                                                        *)
(***************************************************************************)
impute_distance(rows) ==
    LET dist_median == median(rows, "Distance_KM", DOMAIN rows)
    IN  SetCol(rows, "Distance_KM",
               [i \in DOMAIN rows |-> fillna(rows[i]["Distance_KM"], dist_median)])

CleanDistance ==
    /\ pc = "distance"
    /\ IF "Distance_KM" \in df.cols
       THEN df' = [df EXCEPT !.rows = impute_distance(mask_column(df.rows, "Distance_KM"))]
       ELSE UNCHANGED df
    /\ pc' = "categorical"
    /\ ran' = ran \cup {"distance"}
    /\ UNCHANGED <<run, source, output, original_swift_counts, warned, previous>>

(***************************************************************************)
(* 4. Missing categorical data.                                            *)
(***************************************************************************)
cols_to_fix_cat == {"Customer_Segment", "Traffic_Density", "Customer_Rating"}

\* df[col].replace('nan', np.nan)
replace_nan_string(c, cell) ==
    IF c \in TextCols
    THEN IF cell = <<"nan">> THEN NaN ELSE cell
    ELSE IF cell = Txt("nan") THEN NaN ELSE cell

\* fill_category without the replacement of the empty string
fill_category_fillna_only(cell, default) == fillna(cell, <<default>>)

\* df[col].fillna(default) followed by df[col].replace('', default)
fill_category(cell, default) ==
    LET filled == fillna(cell, <<default>>)
    IN  IF filled = <<"">> THEN <<default>> ELSE filled

fix_categories(t) ==
    LET r1 == [i \in DOMAIN t.rows |->
                 [c \in Columns |-> IF c \in cols_to_fix_cat \cap t.cols
                                    THEN replace_nan_string(c, t.rows[i][c])
                                    ELSE t.rows[i][c]]]
        r2 == IF "Customer_Segment" \in t.cols
              THEN SetCol(r1, "Customer_Segment",
                          [i \in DOMAIN r1 |-> fill_category(r1[i]["Customer_Segment"], "Unknown")])
              ELSE r1
    IN  IF "Traffic_Density" \in t.cols
        THEN SetCol(r2, "Traffic_Density",
                    [i \in DOMAIN r2 |-> fill_category(r2[i]["Traffic_Density"], "Medium")])
        ELSE r2

FillCategorical ==
    /\ pc = "categorical"
    /\ df' = [df EXCEPT !.rows = fix_categories(df)]
    /\ pc' = "rating"
    /\ ran' = ran \cup {"categorical"}
    /\ UNCHANGED <<run, source, output, original_swift_counts, warned, previous>>

\* pd.to_numeric(cell, errors='coerce')
to_numeric(cell) == IF IsText(cell) THEN NaN ELSE cell

coerce_rating(rows) ==
    SetCol(rows, "Customer_Rating",
           [i \in DOMAIN rows |-> to_numeric(rows[i]["Customer_Rating"])])

\* groupby('Weather_Condition', dropna=False)
impute_rating(rows) == transform_fill(rows, "Weather_Condition", "Customer_Rating", FALSE)

ImputeRating ==
    /\ pc = "rating"
    /\ IF "Customer_Rating" \notin df.cols
       THEN /\ pc' = "validate"
            /\ UNCHANGED df
       ELSE IF "Weather_Condition" \notin df.cols
       THEN \* KeyError: 'Weather_Condition', after the to_numeric assignment
            /\ pc' = "aborted"
            /\ df' = [df EXCEPT !.rows = coerce_rating(df.rows)]
       ELSE /\ pc' = "validate"
            /\ df' = [df EXCEPT !.rows = impute_rating(coerce_rating(df.rows))]
    /\ ran' = IF pc' = "aborted" THEN ran ELSE ran \cup {"rating"}
    /\ UNCHANGED <<run, source, output, original_swift_counts, warned, previous>>

(***************************************************************************)
(* 5. Validation.                                                          *)
(***************************************************************************)
numeric_checks == {"Delivery_Time_Min", "Order_Value_USD", "Distance_KM"}

\* (df[col] < 0).sum()
neg_count(rows, c) ==
    Cardinality({i \in DOMAIN rows : ~isna(rows[i][c]) /\ rows[i][c][1] < Num(0)})

\* ((df['Delivery_Time_Min'] >= 300) | (df['Delivery_Time_Min'] < 0)).sum()
outlier_delivery(rows) ==
    Cardinality({i \in DOMAIN rows :
        /\ ~isna(rows[i]["Delivery_Time_Min"])
        /\ \/ rows[i]["Delivery_Time_Min"][1] >= Num(300)
           \/ rows[i]["Delivery_Time_Min"][1] < Num(0)})

Validate ==
    /\ pc = "validate"
    /\ IF "Delivery_Time_Min" \notin df.cols
       THEN \* KeyError: 'Delivery_Time_Min' in the realistic-range check
            /\ pc' = "aborted"
            /\ warned' = \E c \in numeric_checks \cap df.cols : neg_count(df.rows, c) > 0
            /\ UNCHANGED ran
       ELSE /\ pc' = "save"
            /\ warned' = \/ \E c \in numeric_checks \cap df.cols : neg_count(df.rows, c) > 0
                         \/ outlier_delivery(df.rows) # 0
            /\ ran' = ran \cup {"validate"}
    /\ UNCHANGED <<run, source, df, output, original_swift_counts, previous>>

(***************************************************************************)
(* 6. Save: df.to_csv(output_file, index=False).                           *)
(***************************************************************************)
\* a missing value is written as an empty field, a text as it is
write_cell(c, cell) == IF c \in TextCols /\ isna(cell) THEN <<"">> ELSE cell

to_csv(t) ==
    [cols |-> t.cols,
     rows |-> [i \in DOMAIN t.rows |->
                 [c \in Columns |-> IF c \in t.cols
                                    THEN write_cell(c, t.rows[i][c])
                                    ELSE NaN]]]

Save ==
    /\ pc = "save"
    /\ output' = [writes |-> output.writes + 1,
                  cols |-> to_csv(df).cols,
                  rows |-> to_csv(df).rows]
    /\ pc' = "done"
    /\ ran' = ran \cup {"save"}
    /\ UNCHANGED <<run, source, df, original_swift_counts, warned, previous>>

(***************************************************************************)
(* A second invocation, on the file the first one wrote.                   *)
(***************************************************************************)
Rerun ==
    /\ pc = "done"
    /\ run = 1
    /\ output.writes > 0
    /\ source' = [exists |-> TRUE, cols |-> output.cols, rows |-> output.rows]
    /\ previous' = output
    /\ output' = NoOutput
    /\ df' = NoTable
    /\ original_swift_counts' = 0
    /\ warned' = FALSE
    /\ ran' = {}
    /\ run' = 2
    /\ pc' = "load"

\* one invocation of clean_data
Pipeline ==
    \/ Load
    \/ LoadFail
    \/ NormalizeText
    \/ CleanDeliveryTime
    \/ CleanOrderValue
    \/ CleanDistance
    \/ FillCategorical
    \/ ImputeRating
    \/ Validate
    \/ Save

Next == Pipeline \/ Rerun

(***************************************************************************)
(* Input files.  The stages treat every row alike and never look at a      *)
(* row's position, so the tables are enumerated up to the order of their   *)
(* rows: a table is a non-decreasing choice of at most MaxRows rows from a *)
(* list of rows.                                                           *)
(***************************************************************************)
\* a row whose cells are all ordinary: nothing in it is cleaned
PlainRow ==
    [Drone_Model |-> <<"Falcon">>, Delivery_Time_Min |-> <<Num(30)>>,
     Order_Value_USD |-> <<Num(12)>>, Distance_KM |-> <<Num(4)>>,
     Customer_Segment |-> <<"Standard">>, Traffic_Density |-> <<"Low">>,
     Customer_Rating |-> <<Num(4)>>, Weather_Condition |-> <<"Clear">>]

\* the rows that differ from PlainRow in column a (a cell of A) and in
\* column b (a cell of B), as a list
RowsVarying(a, A, b, B) ==
    [k \in 1..(Len(A) * Len(B)) |->
        [PlainRow EXCEPT ![a] = A[((k - 1) \div Len(B)) + 1],
                         ![b] = B[((k - 1) % Len(B)) + 1]]]

RECURSIVE Choices(_, _)
\* the non-decreasing sequences of n indices in 1..K
Choices(n, K) ==
    IF n = 0 THEN {<< >>}
    ELSE UNION {{Append(s, k) : k \in (IF s = << >> THEN 1 ELSE s[Len(s)])..K} :
                   s \in Choices(n - 1, K)}

\* the field of an absent column holds nothing
Project(rows, cols) ==
    [i \in DOMAIN rows |-> [c \in Columns |-> IF c \in cols THEN rows[i][c] ELSE NaN]]

File(rows, cols) == [exists |-> TRUE, cols |-> cols, rows |-> Project(rows, cols)]

Absent == [exists |-> FALSE, cols |-> {}, rows |-> << >>]

Start(src) ==
    /\ pc = "load"
    /\ run = 1
    /\ source = src
    /\ df = NoTable
    /\ output = NoOutput
    /\ original_swift_counts = 0
    /\ warned = FALSE
    /\ ran = {}
    /\ previous = NoOutput

\* the input file is absent, or holds 1..MaxRows rows of Rows and the columns
\* of one of ColSets
InitFrom(Rows, ColSets) ==
    \/ Start(Absent)
    \/ \E n \in 1..MaxRows : \E s \in Choices(n, Len(Rows)) : \E cs \in ColSets :
          Start(File([i \in 1..n |-> Rows[s[i]]], cs))

\* Drone_Model x Delivery_Time_Min
DroneTexts == << <<"">>, <<"Swft-X">>, <<"Swift-X">>, <<Pad("Swift-X")>>, <<"Falcon">> >>

DeliveryTimes == <<NaN, <<Num(-5)>>, <<Num(10)>>, <<Num(20)>>, <<Num(300)>>, <<Num(999)>> >>

DeliveryRows == RowsVarying("Drone_Model", DroneTexts, "Delivery_Time_Min", DeliveryTimes)

InitDelivery == InitFrom(DeliveryRows, {Columns})

SpecDelivery == InitDelivery /\ [][Pipeline]_vars

\* Customer_Segment x Order_Value_USD, and Distance_KM
SegmentTexts == << <<"">>, <<Pad("")>>, <<Pad("nan")>>, <<"Premium">>, <<Pad("Premium")>> >>

OrderValues == <<NaN, <<Num(-5)>>, <<Num(0)>>, <<Num(10)>>, <<Num(20)>> >>

Distances == <<NaN, <<Num(-3)>>, <<Num(0)>>, <<Num(8)>> >>

OrderRows ==
    RowsVarying("Customer_Segment", SegmentTexts, "Order_Value_USD", OrderValues)
    \o RowsVarying("Distance_KM", Distances, "Traffic_Density", << <<"Low">> >>)

InitOrder == InitFrom(OrderRows, {Columns})

SpecOrder == InitOrder /\ [][Pipeline]_vars

\* Customer_Segment x Traffic_Density
TrafficTexts == << <<"">>, <<Pad("")>>, <<Pad("nan")>>, <<"Low">>, <<Pad("Low")>> >>

CategoryRows ==
    RowsVarying("Customer_Segment", SegmentTexts, "Traffic_Density", TrafficTexts)

InitCategory == InitFrom(CategoryRows, {Columns})

SpecCategory == InitCategory /\ [][Pipeline]_vars

\* Drone_Model x Weather_Condition
TypoTexts == << <<"">>, <<Pad("")>>, <<"Swft-X">>, <<Pad("Swft-X")>>, <<"Swift-X">>,
                <<Pad("Swift-X")>>, <<"Falcon">> >>

WeatherTexts == << <<"">>, <<"Clear">>, <<Pad("Rain")>> >>

TextRows == RowsVarying("Drone_Model", TypoTexts, "Weather_Condition", WeatherTexts)

InitText == InitFrom(TextRows, {Columns})

SpecText == InitText /\ [][Pipeline]_vars

\* every subset of the referenced columns, over a plain and a dirty row
DirtyRow ==
    [Drone_Model |-> <<Pad("Swft-X")>>, Delivery_Time_Min |-> <<Num(999)>>,
     Order_Value_USD |-> <<Num(-5)>>, Distance_KM |-> <<Num(-3)>>,
     Customer_Segment |-> <<"">>, Traffic_Density |-> <<Pad("")>>,
     Customer_Rating |-> Txt("bad"), Weather_Condition |-> <<"Clear">>]

InitColumns == InitFrom(<<PlainRow, DirtyRow>>, SUBSET Columns)

SpecColumns == InitColumns /\ [][Pipeline]_vars

\* Drone_Model x Delivery_Time_Min and Weather_Condition x Customer_Rating,
\* each invocation followed by a second one on its output
Ratings == <<NaN, <<Num(3)>>, <<Num(5)>>, Txt("bad")>>

RerunRows ==
    RowsVarying("Drone_Model", << <<"">>, <<Pad("")>>, <<Pad("Swft-X")>>, <<"Falcon">> >>,
                "Delivery_Time_Min", <<NaN, <<Num(10)>>, <<Num(20)>>, <<Num(999)>> >>)
    \o RowsVarying("Weather_Condition", WeatherTexts, "Customer_Rating", Ratings)
    \o RowsVarying("Customer_Segment", SegmentTexts, "Order_Value_USD", <<NaN, <<Num(10)>> >>)

InitRerun == InitFrom(RerunRows, {Columns})

Spec == InitRerun /\ [][Next]_vars

(***************************************************************************)
(* Vocabulary of the properties: what a row of the input file held, and    *)
(* the median of a group stated from its lower and upper middle values.    *)
(***************************************************************************)
Rows == DOMAIN source.rows

did(stage) == stage \in ran

\* the input value is a delivery time the pipeline is meant to keep
ValidDelivery(cell) == ~isna(cell) /\ cell[1] >= Num(0) /\ cell[1] < Num(300)

NonNegative(cell) == ~isna(cell) /\ ~IsText(cell) /\ cell[1] >= Num(0)

\* vals: a function from a finite set of rows to integers, not empty.
\* Lower(vals) is the largest value with more than half of the values at or
\* above it, Upper(vals) the smallest with more than half at or below it:
\* the two middle values of the sorted list (the same value for an odd count).
Lower(vals) ==
    LET D == DOMAIN vals
        half == Cardinality(D) \div 2
        ok == {vals[i] : i \in {i \in D : Cardinality({j \in D : vals[j] >= vals[i]}) > half}}
    IN  CHOOSE v \in ok : \A w \in ok : w <= v

Upper(vals) ==
    LET D == DOMAIN vals
        half == Cardinality(D) \div 2
        ok == {vals[i] : i \in {i \in D : Cardinality({j \in D : vals[j] <= vals[i]}) > half}}
    IN  CHOOSE v \in ok : \A w \in ok : v <= w

\* cell is the median of vals: missing for no value, else twice the cell is
\* the sum of the two middle values
IsMedianOf(cell, vals) ==
    IF DOMAIN vals = {} THEN isna(cell)
    ELSE ~isna(cell) /\ 2 * cell[1] = Lower(vals) + Upper(vals)

(***************************************************************************)
(* C1.  Once the Delivery_Time_Min stage (masking, then grouped-median     *)
(* imputation) has run on a table with all columns, every row's            *)
(* Delivery_Time_Min is missing or satisfies 0 <= value < 300, and is      *)
(* never the sentinel 999; the same holds of the file written.             *)
(***************************************************************************)
InRange(cell) ==
    isna(cell) \/ (cell[1] >= Num(0) /\ cell[1] < Num(300) /\ cell[1] # Num(999))

C1_DeliveryTimeInRange ==
    /\ (did("delivery") /\ df.cols = Columns) =>
          \A i \in DOMAIN df.rows : InRange(df.rows[i]["Delivery_Time_Min"])
    /\ (output.writes > 0 /\ output.cols = Columns) =>
          \A i \in DOMAIN output.rows : InRange(output.rows[i]["Delivery_Time_Min"])

\* a row that held the sentinel 999 was filled by imputation and written
C1_Witness ==
    /\ pc = "done" /\ output.writes = 1
    /\ \E i \in Rows :
          /\ source.rows[i]["Delivery_Time_Min"] = <<Num(999)>>
          /\ ~isna(output.rows[i]["Delivery_Time_Min"])

(***************************************************************************)
(* C8.  Delivery_Time_Min imputation groups by the Drone_Model column as   *)
(* the text stage left it (trimmed, Swft-X corrected to Swift-X): after    *)
(* the stage, a row whose input Delivery_Time_Min was invalid (missing,    *)
(* < 0, >= 300 or 999) holds the median of the valid input values of the   *)
(* rows whose cleaned Drone_Model equals its own, and stays missing        *)
(* exactly when there is no such value; there is no overall fallback.      *)
(* Equality of keys is equality of the cleaned cells: a missing key equals *)
(* no key.                                                                 *)
(***************************************************************************)
\* the rows whose cleaned Drone_Model equals that of row i
SameModel(i) ==
    {j \in Rows : /\ ~isna(df.rows[i]["Drone_Model"])
                  /\ df.rows[j]["Drone_Model"] = df.rows[i]["Drone_Model"]}

\* the valid input delivery times of a set of rows
ValidTimes(G) ==
    [j \in {j \in G : ValidDelivery(source.rows[j]["Delivery_Time_Min"])} |->
        source.rows[j]["Delivery_Time_Min"][1]]

Kept(i, c) == output.rows[i][c] = source.rows[i][c]

\* C10: same rows, same columns, every valid numeric input value kept
C10_FrameOfPipeline ==
    (pc = "done" /\ source.exists /\ source.cols = Columns) =>
        /\ output.writes = 1
        /\ output.cols = source.cols
        /\ DOMAIN output.rows = DOMAIN source.rows
        /\ \A i \in Rows :
              /\ ValidDelivery(source.rows[i]["Delivery_Time_Min"]) => Kept(i, "Delivery_Time_Min")
              /\ NonNegative(source.rows[i]["Order_Value_USD"]) => Kept(i, "Order_Value_USD")
              /\ NonNegative(source.rows[i]["Distance_KM"]) => Kept(i, "Distance_KM")
              /\ (~isna(source.rows[i]["Customer_Rating"])
                    /\ ~IsText(source.rows[i]["Customer_Rating"])) => Kept(i, "Customer_Rating")

(***************************************************************************)
(* C2.  In the file written, no row has a negative Order_Value_USD or a    *)
(* negative Distance_KM, and whenever some row of the input column held a  *)
(* non-negative value, no row of the cleaned column is missing.            *)
(***************************************************************************)
C2_NoNegativeNoneMissing ==
    output.writes > 0 =>
        \A c \in {"Order_Value_USD", "Distance_KM"} \cap output.cols :
            /\ \A i \in Rows :
                  isna(output.rows[i][c]) \/ output.rows[i][c][1] >= Num(0)
            /\ (\E j \in Rows : NonNegative(source.rows[j][c])) =>
                  \A i \in Rows : ~isna(output.rows[i][c])

\* a negative order value whose segment holds no valid value, and a negative
\* distance, were both filled
C2_Witness ==
    /\ pc = "done" /\ output.writes = 1
    /\ \E i \in Rows :
          /\ source.rows[i]["Order_Value_USD"] = <<Num(-5)>>
          /\ \A j \in Rows :
                source.rows[j]["Customer_Segment"] = source.rows[i]["Customer_Segment"]
                    => ~NonNegative(source.rows[j]["Order_Value_USD"])
          /\ ~isna(output.rows[i]["Order_Value_USD"])
    /\ \E i \in Rows :
          /\ source.rows[i]["Distance_KM"] = <<Num(-3)>>
          /\ ~isna(output.rows[i]["Distance_KM"])

(***************************************************************************)
(* C9.  Order_Value_USD imputation: after the stage, a row whose input     *)
(* Order_Value_USD was negative or missing holds the median of the         *)
(* non-negative input values of the rows with the same Customer_Segment;   *)
(* when that group has none, it holds the overall median of the            *)
(* non-negative input values of the column (imputed values never feed it). *)
(* As stated: the rows with a missing Customer_Segment form one group,     *)
(* distinct from every other segment value.                                *)
(* As amended: the rows with a missing Customer_Segment form one group     *)
(* together with the rows whose trimmed Customer_Segment is the text       *)
(* "nan"; every other group is one trimmed segment value.                  *)
(***************************************************************************)
\* the segment of an input row: missing, or its trimmed text
StatedSegment(i) ==
    LET raw == source.rows[i]["Customer_Segment"][1]
    IN  IF raw \in NaValues THEN NaN ELSE <<Strip(raw)>>

\* the same, with the text "nan" counted as missing
PooledSegment(i) ==
    IF StatedSegment(i) = <<"nan">> THEN NaN ELSE StatedSegment(i)

NonNegativeOrders(G) ==
    [j \in {j \in G : NonNegative(source.rows[j]["Order_Value_USD"])} |->
        source.rows[j]["Order_Value_USD"][1]]

\* the value the claim gives row i, whose group is the set of rows G
OrderImputed(i, G) ==
    IF DOMAIN NonNegativeOrders(G) # {}
    THEN IsMedianOf(df.rows[i]["Order_Value_USD"], NonNegativeOrders(G))
    ELSE IsMedianOf(df.rows[i]["Order_Value_USD"], NonNegativeOrders(Rows))

\* C9 as stated: the rows with a missing segment are a group of their own
C9_OrderMedianAsStated ==
    (did("order") /\ df.cols = Columns) =>
        \A i \in Rows :
            ~NonNegative(source.rows[i]["Order_Value_USD"]) =>
                OrderImputed(i, {j \in Rows : StatedSegment(j) = StatedSegment(i)})

\* C9 as amended: the rows with a missing segment and those whose trimmed
\* segment is "nan" are one group
C9_OrderMedianOfSegment ==
    (did("order") /\ df.cols = Columns) =>
        \A i \in Rows :
            ~NonNegative(source.rows[i]["Order_Value_USD"]) =>
                OrderImputed(i, {j \in Rows : PooledSegment(j) = PooledSegment(i)})

\* -5 in segment "Premium" became the median of the Premium values 10 and 20
C9_Witness ==
    /\ pc = "done"
    /\ \E i, j, k \in Rows :
          /\ source.rows[i]["Customer_Segment"] = <<"Premium">>
          /\ source.rows[j]["Customer_Segment"] = <<Pad("Premium")>>
          /\ source.rows[k]["Customer_Segment"] = <<"Premium">>
          /\ source.rows[i]["Order_Value_USD"] = <<Num(-5)>>
          /\ source.rows[j]["Order_Value_USD"] = <<Num(10)>>
          /\ source.rows[k]["Order_Value_USD"] = <<Num(20)>>
          /\ df.rows[i]["Order_Value_USD"] = <<Num(15)>>

(***************************************************************************)
(* C3.  After cleaning (all columns present), no row has a missing value,  *)
(* an empty string or the text "nan" in Customer_Segment or                *)
(* Traffic_Density.                                                        *)
(* As stated: every cell that was missing, empty or whitespace-only on     *)
(* input holds "Unknown" (Customer_Segment) or "Medium" (Traffic_Density), *)
(* and every other cell keeps its trimmed input value.                     *)
(* As amended: the cells filled are those that were missing, empty,        *)
(* whitespace-only, or whose trimmed value is the text "nan"; every other  *)
(* cell keeps its trimmed input value.                                     *)
(***************************************************************************)
CategoryDefault(c) == IF c = "Customer_Segment" THEN "Unknown" ELSE "Medium"

\* the input field is missing, empty or whitespace-only
Blank(raw) == raw \in NaValues \/ Strip(raw) = ""

\* rows holds no missing, empty or "nan" category; the cells filled are the
\* blank ones (and, with nanToo, those whose trimmed value is "nan"), the
\* others hold their trimmed input
Filled(rows, nanToo) ==
    \A c \in {"Customer_Segment", "Traffic_Density"} : \A i \in Rows :
        /\ rows[i][c] \notin {NaN, <<"">>, <<"nan">>}
        /\ rows[i][c] = IF \/ Blank(source.rows[i][c][1])
                           \/ (nanToo /\ Strip(source.rows[i][c][1]) = "nan")
                        THEN <<CategoryDefault(c)>>
                        ELSE <<Strip(source.rows[i][c][1])>>

\* C3 as stated: only missing, empty and whitespace-only cells are filled
C3_CategoriesAsStated ==
    /\ (did("categorical") /\ df.cols = Columns) => Filled(df.rows, FALSE)
    /\ (output.writes > 0 /\ output.cols = Columns) => Filled(output.rows, FALSE)

\* C3 as amended: cells whose trimmed value is "nan" are filled as well
C3_CategoriesFilled ==
    /\ (did("categorical") /\ df.cols = Columns) => Filled(df.rows, TRUE)
    /\ (output.writes > 0 /\ output.cols = Columns) => Filled(output.rows, TRUE)

\* a row with Customer_Segment missing and Traffic_Density whitespace-only was
\* written with "Unknown" and "Medium", beside a row that kept a trimmed value
C3_Witness ==
    /\ pc = "done" /\ output.writes = 1
    /\ \E i, j \in Rows :
          /\ source.rows[i]["Customer_Segment"] = <<"">>
          /\ source.rows[i]["Traffic_Density"] = <<Pad("")>>
          /\ output.rows[i]["Customer_Segment"] = <<"Unknown">>
          /\ output.rows[i]["Traffic_Density"] = <<"Medium">>
          /\ source.rows[j]["Customer_Segment"] = <<Pad("Premium")>>
          /\ output.rows[j]["Customer_Segment"] = <<"Premium">>

(***************************************************************************)
(* C7.  Typo correction: once the text stage has run, no Drone_Model cell  *)
(* is "Swft-X"; the cells that are "Swft-X" after trimming, and only       *)
(* those, have become "Swift-X" (every other cell holds its trimmed input, *)
(* a missing one the missing value or its text "nan"); and the count       *)
(* reported is the number of cells the replacement changed.                *)
(***************************************************************************)
IsTypo(i) == Strip(source.rows[i]["Drone_Model"][1]) = "Swft-X"

\* C7: no "Swft-X" is left, exactly the trimmed "Swft-X" cells became
\* "Swift-X", and the count reported is their number
C7_TypoCorrected ==
    (did("normalize") /\ df.cols = Columns) =>
        /\ \A i \in Rows :
              /\ df.rows[i]["Drone_Model"] # <<"Swft-X">>
              /\ IsTypo(i) => df.rows[i]["Drone_Model"] = <<"Swift-X">>
              /\ ~IsTypo(i) =>
                    IF source.rows[i]["Drone_Model"][1] \in NaValues
                    THEN df.rows[i]["Drone_Model"] \in {NaN, <<"nan">>}
                    ELSE df.rows[i]["Drone_Model"] = <<Strip(source.rows[i]["Drone_Model"][1])>>
        /\ original_swift_counts = Cardinality({i \in Rows : IsTypo(i)})

\* two typos, one of them padded, were replaced and counted, beside a cell
\* that was "Swift-X" already
C7_Witness ==
    /\ pc = "delivery"
    /\ original_swift_counts = 2
    /\ \E i, j, k \in Rows :
          /\ source.rows[i]["Drone_Model"] = <<"Swft-X">>
          /\ source.rows[j]["Drone_Model"] = <<Pad("Swft-X")>>
          /\ source.rows[k]["Drone_Model"] = <<Pad("Swift-X")>>
          /\ df.rows[i]["Drone_Model"] = <<"Swift-X">>
          /\ df.rows[j]["Drone_Model"] = <<"Swift-X">>

(***************************************************************************)
(* C4.  Whatever subset of the referenced columns is absent from the       *)
(* input, the pipeline never aborts: the stage of an absent column is      *)
(* skipped, every later stage runs, validation included, and the output    *)
(* file is written.                                                        *)
(***************************************************************************)
Stages == {"load", "normalize", "delivery", "order", "distance", "categorical",
           "rating", "validate", "save"}

C4_AbsentColumnsNeverAbort ==
    /\ pc # "aborted"
    /\ (pc = "done" /\ source.exists) => (ran = Stages /\ output.writes = 1)

(***************************************************************************)
(* C6.  The output file is written exactly when the load succeeds.  With   *)
(* the source file absent the pipeline returns without raising, runs no    *)
(* stage and writes nothing.  With the source loaded and all columns       *)
(* present the output is written exactly once, after validation; the       *)
(* validation step changes no cell of the table and always hands over to   *)
(* the write, whatever it warned about.                                    *)
(***************************************************************************)
C6_WriteState ==
    /\ output.writes <= 1
    /\ output.writes = 1 => (source.exists /\ did("validate"))
    /\ ~source.exists => (pc \in {"load", "done"} /\ ran = {} /\ output.writes = 0)
    /\ (pc = "done" /\ source.exists /\ source.cols = Columns) => output.writes = 1

C6_ValidateStep ==
    (pc = "validate" /\ df.cols = Columns) => (df' = df /\ pc' = "save" /\ output' = output)

\* C6: the write happens exactly when the load succeeded, once, after a
\* validation step that changes nothing
C6_OutputWrittenIffLoaded == []C6_WriteState /\ [][C6_ValidateStep]_vars

\* the source file was absent: the pipeline has returned and nothing is written
C6_Witness == pc = "done" /\ ~source.exists /\ output.writes = 0 /\ ran = {}

(***************************************************************************)
(* C5.  Idempotence (all columns present): the pipeline run on the file    *)
(* written by a first run writes a file equal to it cell for cell.         *)
(***************************************************************************)
C5_Idempotent ==
    (run = 2 /\ pc = "done" /\ previous.cols = Columns) =>
        (output.cols = previous.cols /\ output.rows = previous.rows)

====
